---- MODULE Spec2Model ----
(***************************************************************************)
(* Job orchestration of mortgagedocai: the disk job store, claim markers,  *)
(* the per-loan lock, the job service (enqueue, startup recovery) and the  *)
(* worker poll cycle.                                                       *)
(*                                                                          *)
(* The shared file system is the variables disk, claim, lock, manifest and  *)
(* units.  The API process owns svcJobs / keyIndex (JobService._jobs and    *)
(* JobKeyIndexImpl._index); each worker process owns its locals (wpc, ...). *)
(***************************************************************************)
EXTENDS Integers, Sequences, FiniteSets, TLC

\* ---------------------------------------------------------------- bounds
MaxJobs == 3          \* job ids that can exist (uuid4 values handed out)
MaxInitJobs == 2      \* PENDING records already queued on disk at the start
MaxEnqueue == 2       \* enqueue calls served over a behaviour
MaxRestarts == 1      \* restarts of the API process after its first start
JOB_RELOAD_LIMIT == 2   \* environment variable JOB_RELOAD_LIMIT (500 when unset)
MaxStrLen == 4        \* length of a captured output string
MaxCap == 3           \* truncation cap passed to _truncate
MaxSaves == 3         \* save calls of one writer on the same job
MaxInodes == 4        \* files of one job that can exist at once (linked or held open)
MaxIndexJobs == 2     \* job ids passed to the job-id index
MaxIndexSaves == 2    \* save_index_entry calls for one job id
MaxClaimAge == 2      \* age of a claim marker, in seconds

\* ---------------------------------------------------------------- domains
Workers == {"w1", "w2"}
Clients == {"c1", "c2"}
Tenant == "t1"
Loans == {"L1", "L2"}
JobIds == 1..MaxJobs
None == "None"
RunIds == {"R1"}

\* request shapes: a pipeline job naming a run, a pipeline job without a run
\* id, and a query job (always carries run_id and question)
Requests ==
    { [run_id |-> "R1", question |-> FALSE],
      [run_id |-> None, question |-> FALSE],
      [run_id |-> "R1", question |-> TRUE] }

Active == {"PENDING", "RUNNING", "SUCCESS"}
Terminal == {"SUCCESS", "FAIL"}

\* a job file that does not exist / a job id absent from a dict
NoJob == [status |-> "ABSENT"]

\* ---------------------------------------------------------------- pure helpers
compute_job_key(tenant_id, loan_id, req) == <<tenant_id, loan_id, req>>

\* stdout is abstracted to whether it carries a "run_id = R1" line
parse_run_id_from_stdout(stdout) ==
    IF stdout = "run_id = R1" THEN "R1" ELSE None

VARIABLES
    disk,        \* job_id -> persisted record, or NoJob
    mtimeOrder,  \* ids of the job files on disk, oldest modification time first
    claim,       \* job_id -> "none" | "fresh" | "stale"   ({job_id}.claim and its age)
    lock,        \* loan -> job id written in loan.lock, or 0 when the file is absent
    manifest,    \* loan -> status in {run_id}/job_manifest.json, or "none"
    units,       \* job ids whose supervision unit is active
    svcJobs,     \* JobService._jobs
    keyIndex,    \* JobKeyIndexImpl._index : set of <<job_key, job_id>>, a function
    apc,         \* API process: "start" | "load" | "restore" | "up"
    orphaned,    \* job ids found by _find_orphaned_running_jobs
    watching,    \* job ids with a live _watch_orphaned_job thread
    restarts,    \* API restarts so far
    nextId,      \* the next uuid4 value (job ids are never reused)
    cpc,         \* client -> position inside JobService.enqueue_job
    creq,        \* client -> <<loan, request, id of the FAIL job the index named>> of the call in progress
    cjob,        \* client -> job id bound to the local `job`, 0 if unbound
    cstart,      \* client -> number of calls already answered when this one began
    enqLog,      \* answered enqueue calls, in order of their answer
    wpc,         \* worker -> position inside run_one_cycle
    wpending,    \* worker -> ids of `pending` not yet visited
    wjid,        \* worker -> jid of the loop iteration, 0 outside
    wjob,        \* worker -> local `job` dict
    wret,        \* worker -> what runner.run produced
    runs,        \* job_id -> number of runner.run invocations (capped at 2)
    wonBy,       \* job_id -> workers whose try_claim returned True since the marker was last absent
    shortCircuited, \* job ids created by the manifest short-circuit
    fnArgs,      \* the arguments of a single call studied on its own, or NoCall
    fnOut,       \* what that call produced, or NoCall before it has run
    inode,       \* file id -> content of a file of one job: <<first part, rest>>
    path,        \* "json" | "tmp" -> file id at {job_id}.json / {job_id}.json.tmp, 0 if absent
    spc,         \* writer -> position inside DiskJobStore.save
    sfd,         \* writer -> file id its open handle writes to, 0 if none
    saved,       \* writer -> save calls that have returned
    sres,        \* writer -> how its last save call ended ("none" | "ok" | "failed") and
                 \* what {job_id}.json held when its current or last call began
    lastRead,    \* what the last read of {job_id}.json found
    indexFiles,  \* file name under _meta/job_index -> what the file holds, or NoIndexFile
    indexSaved,  \* job_id -> the arguments and the ending of the last save_index_entry for it
    indexRead    \* the last load_index_entry since the last save: its job_id and its result

vars == << disk, mtimeOrder, claim, lock, manifest, units, svcJobs, keyIndex, apc, orphaned,
           watching, restarts, nextId, cpc, creq, cjob, cstart, enqLog, wpc, wpending,
           wjid, wjob, wret, runs, wonBy, shortCircuited, fnArgs, fnOut,
           inode, path, spc, sfd, saved, sres, lastRead, indexFiles, indexSaved, indexRead >>

fsVars == << disk, mtimeOrder, claim, lock, manifest, units >>
apiVars == << svcJobs, keyIndex, apc, orphaned, watching, restarts >>
clientVars == << nextId, cpc, creq, cjob, cstart, enqLog, shortCircuited >>
workerVars == << wpc, wpending, wjid, wjob, wret >>
ghostVars == << runs, wonBy >>
coreVars == << fsVars, apiVars, clientVars, workerVars, ghostVars >>
saveVars == << inode, path, spc, sfd, saved, sres, lastRead >>
indexVars == << indexFiles, indexSaved, indexRead >>
callVars == << fnArgs, fnOut, indexVars >>
pureVars == << callVars, saveVars >>

\* no single call is being studied
NoCall == [op |-> "none"]

\* ---------------------------------------------------------------- records
Keys == { compute_job_key(Tenant, l, r) : l \in Loans, r \in Requests }

\* the PENDING record enqueue_job builds
PendingJob(job_id, loan_id, req) ==
    [ job_id |-> job_id, tenant_id |-> Tenant, loan_id |-> loan_id,
      run_id |-> req.run_id, status |-> "PENDING",
      created_at_utc |-> "t", started_at_utc |-> None, finished_at_utc |-> None,
      request |-> req, result |-> None, error |-> None,
      stdout |-> None, stderr |-> None,
      job_key |-> compute_job_key(Tenant, loan_id, req) ]

\* the short-circuit record created PENDING, as a fresh submission is
ShortCircuitJobPending(job_id, loan_id, req, result_summary) ==
    [ PendingJob(job_id, loan_id, req) EXCEPT !.result = result_summary ]

ShortCircuitJob(job_id, loan_id, req, result_summary) ==
    [ job_id |-> job_id, tenant_id |-> Tenant, loan_id |-> loan_id,
      run_id |-> req.run_id, status |-> "SUCCESS",
      created_at_utc |-> "t", started_at_utc |-> "t", finished_at_utc |-> "t",
      request |-> req, result |-> result_summary, error |-> None,
      stdout |-> None, stderr |-> None,
      job_key |-> compute_job_key(Tenant, loan_id, req) ]

\* ---------------------------------------------------------------- manifest
\* the manifest of a run, or None when the file is absent
load_manifest_if_present(mf, loan_id, run_id) ==
    IF mf[loan_id] = "none" THEN None ELSE mf[loan_id]

\* the result summary (abstracted to the manifest status it carries), or None
result_from_manifest(mf, loan_id, run_id) ==
    IF load_manifest_if_present(mf, loan_id, run_id) = "SUCCESS" THEN "SUCCESS" ELSE None

\* ---------------------------------------------------------------- job store
Without(seq, x) == SelectSeq(seq, LAMBDA y : y # x)

\* os.replace of the temp file over {job_id}.json
save(d, job) == [d EXCEPT ![job.job_id] = job]

\* the file's modification time becomes the newest
touch(order, job_id) == Append(Without(order, job_id), job_id)

load_job(d, job_id) == d[job_id]

list_pending_jobs(d) == { j \in JobIds : d[j].status = "PENDING" }

\* the exclusive create of the claim marker overwrites an existing marker
try_claim_overwrite(c, job_id) == TRUE

\* whether os.open(O_CREAT | O_EXCL) of the claim marker succeeds
try_claim(c, job_id) == c[job_id] = "none"

\* the marker is left in place
release_claim_keeps_marker(c, job_id) == c

release_claim(c, job_id) == [c EXCEPT ![job_id] = "none"]

\* every marker older than max_age_sec is removed
clear_stale_claims_any_status(c, d) ==
    [ j \in JobIds |-> IF c[j] = "stale" THEN "none" ELSE c[j] ]

clear_stale_claims(c, d) ==
    [ j \in JobIds |->
        IF c[j] = "stale" /\ d[j].status = "PENDING" THEN "none" ELSE c[j] ]

\* ---------------------------------------------------------------- loan lock
\* the exclusive create succeeds whether or not the file exists
lock_free_always(lk, loan_id) == TRUE

lock_free(lk, loan_id) == lk[loan_id] = 0

\* a release that leaves the marker in place
release_keeps_marker(lk, loan_id) == lk

release(lk, loan_id) == [lk EXCEPT ![loan_id] = 0]

clear_if_stale(lk, loan_id) == release(lk, loan_id)

\* ---------------------------------------------------------------- load_all
Reverse(seq) == [ i \in 1..Len(seq) |-> seq[Len(seq) + 1 - i] ]

\* restart recovery of one RUNNING record that always gives up on the job
RecoverRecordAlwaysFail(job, mf) ==
    [ job EXCEPT !.status = "FAIL", !.finished_at_utc = "t", !.error = "recovered" ]

\* restart recovery of one RUNNING record: SUCCESS from the manifest, else FAIL
RecoverRecord(job, mf) ==
    LET result_summary ==
            IF job.run_id # None
            THEN result_from_manifest(mf, job.loan_id, job.run_id) ELSE None
    IN  IF result_summary # None
        THEN [ job EXCEPT !.status = "SUCCESS", !.finished_at_utc = "t",
                          !.result = result_summary, !.error = None ]
        ELSE [ job EXCEPT !.status = "FAIL", !.finished_at_utc = "t",
                          !.error = "recovered" ]

\* the dict load_all returns (NoJob: no entry)
load_all_jobs(d, mf) ==
    [ j \in JobIds |->
        IF d[j].status = "RUNNING" THEN RecoverRecord(d[j], mf) ELSE d[j] ]

\* the lock files after load_all: cleared for every loan with a RUNNING record
load_all_lock(lk, d) ==
    [ l \in Loans |->
        IF \E j \in JobIds : d[j].status = "RUNNING" /\ d[j].loan_id = l
        THEN clear_if_stale(lk, l)[l] ELSE lk[l] ]

RECURSIVE TouchAll(_, _)
TouchAll(order, ids) ==
    IF ids = << >> THEN order
    ELSE TouchAll(touch(order, Head(ids)), Tail(ids))

\* the modification times after load_all saved the recovered records, which it
\* visits newest first
load_all_order(order, d) ==
    TouchAll(order, SelectSeq(Reverse(order), LAMBDA j : d[j].status = "RUNNING"))

\* JobKeyIndexImpl.rebuild over the freshly loaded dict, whose iteration order
\* is the load order (newest file first): the last assignment for a key wins
rebuild(jobs, order) ==
    [ k \in Keys |->
        LET withKey == SelectSeq(order, LAMBDA j : jobs[j] # NoJob /\ jobs[j].job_key = k)
        IN  IF withKey = << >> THEN 0 ELSE Head(withKey) ]

Perms(S) ==
    { f \in [1..Cardinality(S) -> S] : \A i, j \in 1..Cardinality(S) : f[i] = f[j] => i = j }

\* ---------------------------------------------------------------- API process
\* _startup step 1: _find_orphaned_running_jobs
ApiFindOrphans ==
    /\ apc = "start"
    /\ orphaned' = { j \in JobIds : disk[j].status = "RUNNING" /\ j \in units }
    /\ apc' = "load"
    /\ UNCHANGED << fsVars, svcJobs, keyIndex, watching, restarts, clientVars,
                    workerVars, ghostVars, pureVars >>

\* _startup step 2: JobService.load_all_from_disk
ApiLoadAll ==
    /\ apc = "load"
    /\ LET jobs == load_all_jobs(disk, manifest)
       IN  /\ svcJobs' = [ j \in JobIds |-> IF jobs[j] # NoJob THEN jobs[j] ELSE svcJobs[j] ]
           /\ keyIndex' = rebuild(svcJobs', mtimeOrder)
           /\ disk' = jobs
    /\ lock' = load_all_lock(lock, disk)
    /\ mtimeOrder' = load_all_order(mtimeOrder, disk)
    /\ apc' = "restore"
    /\ UNCHANGED << claim, manifest, units, orphaned, watching, restarts, clientVars,
                    workerVars, ghostVars, pureVars >>

\* a restored orphan: back to RUNNING in memory
RestoreRecord(job) ==
    [ job EXCEPT !.status = "RUNNING", !.finished_at_utc = None, !.error = None ]

\* _startup step 3: restore the orphaned jobs to RUNNING and start their watchers
ApiRestoreOrphans ==
    /\ apc = "restore"
    /\ LET known == { j \in orphaned : svcJobs[j] # NoJob }
       IN  /\ svcJobs' = [ j \in JobIds |->
                            IF j \in known THEN RestoreRecord(svcJobs[j]) ELSE svcJobs[j] ]
           /\ disk' = [ j \in JobIds |-> IF j \in known THEN svcJobs'[j] ELSE disk[j] ]
           /\ \E seq \in Perms(known) : mtimeOrder' = TouchAll(mtimeOrder, seq)
    /\ watching' = orphaned
    /\ apc' = "up"
    /\ UNCHANGED << claim, lock, manifest, units, keyIndex, orphaned, restarts,
                    clientVars, workerVars, ghostVars, pureVars >>

\* the API process is stopped and started again: its memory and threads are gone
ApiRestart ==
    /\ apc = "up"
    /\ restarts < MaxRestarts
    /\ restarts' = restarts + 1
    /\ apc' = "start"
    /\ svcJobs' = [ j \in JobIds |-> NoJob ]
    /\ keyIndex' = [ k \in Keys |-> 0 ]
    /\ orphaned' = {}
    /\ watching' = {}
    /\ cpc' = [ c \in Clients |-> "idle" ]
    /\ cjob' = [ c \in Clients |-> 0 ]
    /\ UNCHANGED << fsVars, nextId, creq, cstart, enqLog, shortCircuited,
                    workerVars, ghostVars, pureVars >>

\* ---------------------------------------------------------------- enqueue_job
\* whether the run the request names has a SUCCESS manifest on disk
has_success_manifest(mf, loan_id, req) ==
    req.run_id # None /\ result_from_manifest(mf, loan_id, req.run_id) # None

\* an answered call, for the log: what the caller got (job_id 0 and status
\* RAISED: an exception), whether the idempotency check hit, the FAIL job the
\* index named, whether the run had a SUCCESS manifest when the call looked,
\* how many calls had been answered when this one began, and which start of
\* the API process served it
Answer(loan_id, req, job_id, status, hit, failed, mf, start) ==
    [ key |-> compute_job_key(Tenant, loan_id, req), job_id |-> job_id,
      status |-> status, hit |-> hit, failed |-> failed, mf |-> mf, start |-> start,
      epoch |-> restarts ]

CallsInFlight == Cardinality({ c \in Clients : cpc[c] # "idle" })

\* the idempotency check (first `with self._lock` block)
EnqueueCheck(c, loan_id, req) ==
    /\ apc = "up"
    /\ cpc[c] = "idle"
    /\ Len(enqLog) + CallsInFlight < MaxEnqueue
    /\ LET job_key == compute_job_key(Tenant, loan_id, req)
           existing_id == keyIndex[job_key]
           existing == IF existing_id = 0 THEN NoJob ELSE svcJobs[existing_id]
       IN  IF existing # NoJob /\ existing.status \in Active
           THEN /\ enqLog' = Append(enqLog,
                        Answer(loan_id, req, existing_id, existing.status, TRUE, 0,
                               has_success_manifest(manifest, loan_id, req), Len(enqLog)))
                /\ UNCHANGED << cpc, creq, cjob, cstart >>
           ELSE /\ cpc' = [cpc EXCEPT ![c] = "create"]
                /\ creq' = [creq EXCEPT ![c] =
                                <<loan_id, req,
                                  IF existing # NoJob /\ existing.status = "FAIL"
                                  THEN existing_id ELSE 0>>]
                /\ cjob' = [cjob EXCEPT ![c] = 0]
                /\ cstart' = [cstart EXCEPT ![c] = Len(enqLog)]
                /\ UNCHANGED enqLog
    /\ UNCHANGED << fsVars, apiVars, nextId, shortCircuited, workerVars, ghostVars, pureVars >>

\* the manifest short-circuit: the job is built, registered and indexed
EnqueueShortCircuit(c) ==
    /\ apc = "up"
    /\ cpc[c] = "create"
    /\ LET loan_id == creq[c][1]
           req == creq[c][2]
           result_summary == result_from_manifest(manifest, loan_id, req.run_id)
           job_id == nextId
       IN  /\ req.run_id # None /\ ~req.question
           /\ result_summary # None
           /\ nextId <= MaxJobs
           /\ nextId' = nextId + 1
           /\ svcJobs' = [svcJobs EXCEPT ![job_id] =
                              ShortCircuitJob(job_id, loan_id, req, result_summary)]
           /\ keyIndex' = [keyIndex EXCEPT ![compute_job_key(Tenant, loan_id, req)] = job_id]
           /\ shortCircuited' = shortCircuited \cup {job_id}
           /\ cjob' = [cjob EXCEPT ![c] = job_id]
           /\ cpc' = [cpc EXCEPT ![c] = "save"]
    /\ UNCHANGED << fsVars, apc, orphaned, watching, restarts, creq, cstart, enqLog,
                    workerVars, ghostVars, pureVars >>

\* no short-circuit: `job` was never bound, so job["stdout"] = ... raises
\* UnboundLocalError and the call ends without an answer
EnqueueRaise(c) ==
    /\ apc = "up"
    /\ cpc[c] = "create"
    /\ LET loan_id == creq[c][1]
           req == creq[c][2]
           result_summary ==
               IF req.run_id # None /\ ~req.question
               THEN result_from_manifest(manifest, loan_id, req.run_id) ELSE None
       IN  /\ result_summary = None
           /\ enqLog' = Append(enqLog,
                   Answer(loan_id, req, 0, "RAISED", FALSE, creq[c][3],
                          has_success_manifest(manifest, loan_id, req), cstart[c]))
    /\ cpc' = [cpc EXCEPT ![c] = "idle"]
    /\ cjob' = [cjob EXCEPT ![c] = 0]
    /\ UNCHANGED << fsVars, apiVars, nextId, creq, cstart, shortCircuited,
                    workerVars, ghostVars, pureVars >>

\* job["stdout"] = PHASE:DONE, store.save(job), return the answer
EnqueueSave(c) ==
    /\ apc = "up"
    /\ cpc[c] = "save"
    /\ LET job_id == cjob[c]
           job == [svcJobs[job_id] EXCEPT !.stdout = "PHASE:DONE"]
       IN  /\ svcJobs' = [svcJobs EXCEPT ![job_id] = job]
           /\ disk' = save(disk, job)
           /\ mtimeOrder' = touch(mtimeOrder, job_id)
           /\ enqLog' = Append(enqLog,
                   Answer(creq[c][1], creq[c][2], job_id, "SUCCESS", FALSE, creq[c][3],
                          TRUE, cstart[c]))
    /\ cpc' = [cpc EXCEPT ![c] = "idle"]
    /\ cjob' = [cjob EXCEPT ![c] = 0]
    /\ UNCHANGED << claim, lock, manifest, units, keyIndex, apc, orphaned, watching,
                    restarts, nextId, creq, cstart, shortCircuited, workerVars, ghostVars, pureVars >>

\* ---------------------------------------------------------------- run_one_cycle
NoRet == [kind |-> "none", returncode |-> 0, stdout |-> "", write |-> "keep"]

Inc(n) == IF n < 2 THEN n + 1 ELSE n

\* store.clear_stale_claims(max_age_sec); pending = store.list_pending_jobs(...);
\* with nothing pending the loop body never runs and the cycle returns False
CycleStart(w) ==
    /\ wpc[w] = "idle"
    /\ claim' = clear_stale_claims(claim, disk)
    /\ wonBy' = [ j \in JobIds |-> IF claim'[j] = "none" THEN {} ELSE wonBy[j] ]
    /\ wpending' = [wpending EXCEPT ![w] = list_pending_jobs(disk)]
    /\ wpc' = [wpc EXCEPT ![w] = IF list_pending_jobs(disk) = {} THEN "idle" ELSE "claim"]
    /\ UNCHANGED << disk, mtimeOrder, lock, manifest, units, apiVars, clientVars,
                    wjid, wjob, wret, runs, pureVars >>

\* the for loop is exhausted: return False
CycleNothing(w) ==
    /\ wpc[w] = "claim"
    /\ wpending[w] = {}
    /\ wpc' = [wpc EXCEPT ![w] = "idle"]
    /\ UNCHANGED << fsVars, apiVars, clientVars, wpending, wjid, wjob, wret, ghostVars, pureVars >>

\* next (tid, lid, jid) of the loop (directory order is arbitrary): store.try_claim
CycleTryClaim(w, jid) ==
    /\ wpc[w] = "claim"
    /\ jid \in wpending[w]
    /\ wpending' = [wpending EXCEPT ![w] = @ \ {jid}]
    /\ IF try_claim(claim, jid)
       THEN /\ claim' = [claim EXCEPT ![jid] = "fresh"]
            /\ wonBy' = [wonBy EXCEPT ![jid] = @ \cup {w}]
            /\ wjid' = [wjid EXCEPT ![w] = jid]
            /\ wpc' = [wpc EXCEPT ![w] = "recheck"]
       ELSE UNCHANGED << claim, wonBy, wjid, wpc >>
    /\ UNCHANGED << disk, mtimeOrder, lock, manifest, units, apiVars, clientVars,
                    wjob, wret, runs, pureVars >>

\* job = store.load_job(...); not PENDING any more: release_claim and continue
CycleRecheck(w) ==
    /\ wpc[w] = "recheck"
    /\ LET job == load_job(disk, wjid[w])
       IN  IF job = NoJob \/ job.status # "PENDING"
           THEN /\ claim' = release_claim(claim, wjid[w])
                /\ wonBy' = [wonBy EXCEPT ![wjid[w]] = {}]
                /\ wjid' = [wjid EXCEPT ![w] = 0]
                /\ wpc' = [wpc EXCEPT ![w] = "claim"]
                /\ UNCHANGED << wjob, wpending >>
           ELSE /\ wjob' = [wjob EXCEPT ![w] = job]
                /\ wpending' = [wpending EXCEPT ![w] = {}]
                /\ wpc' = [wpc EXCEPT ![w] = "acquire"]
                /\ UNCHANGED << claim, wonBy, wjid >>
    /\ UNCHANGED << disk, mtimeOrder, lock, manifest, units, apiVars, clientVars,
                    wret, runs, pureVars >>

\* loan_lock.acquire returns once its exclusive create succeeds (while the
\* marker exists the loop sleeps and retries); then status RUNNING is saved and
\* runner.run(request, tid, lid, env, timeout) is entered.  No job_id is
\* passed, so the runner starts no supervision unit.
CycleAcquire(w) ==
    /\ wpc[w] = "acquire"
    /\ lock_free(lock, wjob[w].loan_id)
    /\ lock' = [lock EXCEPT ![wjob[w].loan_id] = wjid[w]]
    /\ LET job == [wjob[w] EXCEPT !.status = "RUNNING", !.started_at_utc = "t"]
       IN  /\ wjob' = [wjob EXCEPT ![w] = job]
           /\ disk' = save(disk, job)
           /\ mtimeOrder' = touch(mtimeOrder, job.job_id)
    /\ runs' = [runs EXCEPT ![wjid[w]] = Inc(@)]
    /\ wpc' = [wpc EXCEPT ![w] = "running"]
    /\ UNCHANGED << claim, manifest, units, apiVars, clientVars, wpending, wjid,
                    wret, wonBy, pureVars >>

\* what runner.run can produce: a normal return (exit code, stdout with or
\* without a "run_id = R1" line), subprocess.TimeoutExpired, another exception.
\* write is what the pipeline did to its manifest before it ended: only a
\* pipeline that exits 0 has written a SUCCESS manifest
RunnerOutcomes ==
    { [kind |-> "ret", returncode |-> rc, stdout |-> out, write |-> wr] :
        rc \in {0, 1}, out \in {"", "run_id = R1"}, wr \in {"keep", "SUCCESS"} }
    \cup { [kind |-> "timeout", returncode |-> 0, stdout |-> "", write |-> "keep"],
           [kind |-> "error", returncode |-> 0, stdout |-> "", write |-> "keep"] }

\* a pipeline that prints its run id and either completes (exit 0, manifest
\* written), fails (exit 1) or cannot be run (exception)
PipelineOutcomes ==
    { o \in RunnerOutcomes :
        /\ o.kind # "timeout"
        /\ o.kind = "ret" => /\ o.stdout = "run_id = R1"
                             /\ (o.write = "SUCCESS") = (o.returncode = 0) }

\* runner.run returns: the finally clause releases the loan lock
CycleRunnerReturns(w, outcome) ==
    /\ wpc[w] = "running"
    /\ outcome.kind = "ret"
    /\ manifest' = [manifest EXCEPT ![wjob[w].loan_id] =
                        IF outcome.write = "keep" THEN @ ELSE outcome.write]
    /\ wret' = [wret EXCEPT ![w] = outcome]
    /\ lock' = release(lock, wjob[w].loan_id)
    /\ wpc' = [wpc EXCEPT ![w] = "finalize"]
    /\ UNCHANGED << disk, mtimeOrder, claim, units, apiVars, clientVars, wpending,
                    wjid, wjob, ghostVars, pureVars >>

\* manifest.get("status") raises: the manifest file of the resolved run id
\* parses as JSON but is not an object, which load_manifest_if_present
\* returns as it is
manifest_raises(job, stdout, mf) ==
    /\ (job.request.run_id # None \/ parse_run_id_from_stdout(stdout) # None)
    /\ mf[job.loan_id] = "MALFORMED"

\* the record saved as it was when the runner started
ClassifyLeavesRunning(job, returncode, stdout, mf) == job

\* the record run_one_cycle saves after a normal runner return
Classify(job, returncode, stdout, mf) ==
    LET resolved_run_id ==
            IF job.request.run_id # None THEN job.request.run_id
            ELSE parse_run_id_from_stdout(stdout)
        found == IF resolved_run_id # None
                 THEN load_manifest_if_present(mf, job.loan_id, resolved_run_id)
                 ELSE None
        done == [ job EXCEPT !.finished_at_utc = "t", !.stdout = stdout,
                             !.stderr = "", !.run_id = resolved_run_id ]
    IN  IF returncode = 0 /\ found = "SUCCESS"
        THEN [ done EXCEPT !.status = "SUCCESS", !.result = found ]
        ELSE [ done EXCEPT !.status = "FAIL", !.error = "exit",
                           !.result = IF found # None THEN found ELSE job.result ]

\* resolve the run id, read the manifest, classify, store.save(job),
\* store.release_claim(tid, lid, jid); return True
CycleFinalize(w) ==
    /\ wpc[w] = "finalize"
    /\ ~ manifest_raises(wjob[w], wret[w].stdout, manifest)
    /\ LET job == Classify(wjob[w], wret[w].returncode, wret[w].stdout, manifest)
       IN  /\ disk' = save(disk, job)
           /\ mtimeOrder' = touch(mtimeOrder, job.job_id)
    /\ claim' = release_claim(claim, wjid[w])
    /\ wonBy' = [wonBy EXCEPT ![wjid[w]] = {}]
    /\ wpc' = [wpc EXCEPT ![w] = "idle"]
    /\ wjid' = [wjid EXCEPT ![w] = 0]
    /\ wjob' = [wjob EXCEPT ![w] = NoJob]
    /\ wret' = [wret EXCEPT ![w] = NoRet]
    /\ UNCHANGED << lock, manifest, units, apiVars, clientVars, wpending, runs, pureVars >>

\* runner.run raises (TimeoutExpired or another exception): FAIL is saved, the
\* except clause returns True, the finally clause releases the loan lock;
\* release_claim is not reached on this path
CycleRunnerRaises(w, outcome) ==
    /\ wpc[w] = "running"
    /\ outcome.kind # "ret"
    /\ LET job == [ wjob[w] EXCEPT !.status = "FAIL", !.finished_at_utc = "t",
                       !.error = IF outcome.kind = "timeout" THEN "timeout" ELSE "exception" ]
       IN  /\ disk' = save(disk, job)
           /\ mtimeOrder' = touch(mtimeOrder, job.job_id)
    /\ lock' = release(lock, wjob[w].loan_id)
    /\ wpc' = [wpc EXCEPT ![w] = "idle"]
    /\ wjid' = [wjid EXCEPT ![w] = 0]
    /\ wjob' = [wjob EXCEPT ![w] = NoJob]
    /\ UNCHANGED << claim, manifest, units, apiVars, clientVars, wpending, wret,
                    ghostVars, pureVars >>

\* time passes: a claim marker becomes older than CLAIM_STALE_SEC
AgeClaim(jid) ==
    /\ claim[jid] = "fresh"
    /\ claim' = [claim EXCEPT ![jid] = "stale"]
    /\ UNCHANGED << disk, mtimeOrder, lock, manifest, units, apiVars, clientVars,
                    workerVars, ghostVars, pureVars >>

\* ---------------------------------------------------------------- save, step by step
\* the actors that save the same job: a worker and the API process
Writers == {"s1", "s2"}

InodeIds == 1..MaxInodes

\* a part of a file that holds nothing
NoChunk == << >>

\* a file just created or truncated
EmptyFile == << NoChunk, NoChunk >>

\* the record writer w serialises in its n-th save call
Version(w, n) == << w, n >>

\* read results: no read yet, file absent
NotRead == << "unread" >>
Absent == << "absent" >>

\* the path save opens for writing, were it to write the record in place
write_target_in_place(p) == "json"

\* tmp = path.with_suffix(path.suffix + ".tmp"): the same name for every writer
write_target(p) == "tmp"

\* a file id that no path and no open handle refers to
FreeInode ==
    CHOOSE i \in InodeIds :
        /\ i # path.json /\ i # path.tmp
        /\ \A w \in Writers : sfd[w] # i

\* what a file holds, by name
content(ino, p, name) == IF p[name] = 0 THEN Absent ELSE ino[p[name]]

InitSave ==
    /\ inode = [ i \in InodeIds |-> EmptyFile ]
    /\ path = [ json |-> 0, tmp |-> 0 ]
    /\ spc = [ w \in Writers |-> "idle" ]
    /\ sfd = [ w \in Writers |-> 0 ]
    /\ saved = [ w \in Writers |-> 0 ]
    /\ sres = [ w \in Writers |-> [ result |-> "none", before |-> Absent ] ]
    /\ lastRead = NotRead

\* tmp.open("w"): creates the file, or truncates the one already at that name
SaveOpen(w) ==
    /\ spc[w] = "idle"
    /\ saved[w] < MaxSaves
    /\ LET t == write_target(path)
           i == IF path[t] # 0 THEN path[t] ELSE FreeInode
       IN  /\ inode' = [inode EXCEPT ![i] = EmptyFile]
           /\ path' = [path EXCEPT ![t] = i]
           /\ sfd' = [sfd EXCEPT ![w] = i]
    /\ spc' = [spc EXCEPT ![w] = "opened"]
    /\ sres' = [sres EXCEPT ![w].before = content(inode, path, "json")]
    /\ UNCHANGED << coreVars, callVars, saved, lastRead >>

\* json.dump(job, f): the first part of the text reaches the file
SaveWriteHead(w) ==
    /\ spc[w] = "opened"
    /\ inode' = [inode EXCEPT ![sfd[w]][1] = Version(w, saved[w] + 1)]
    /\ spc' = [spc EXCEPT ![w] = "half"]
    /\ UNCHANGED << coreVars, callVars, path, sfd, saved, sres, lastRead >>

\* the rest of the text reaches the file and the with block closes it
SaveWriteTail(w) ==
    /\ spc[w] = "half"
    /\ inode' = [inode EXCEPT ![sfd[w]][2] = Version(w, saved[w] + 1)]
    /\ spc' = [spc EXCEPT ![w] = "written"]
    /\ UNCHANGED << coreVars, callVars, path, sfd, saved, sres, lastRead >>

\* os.replace(tmp, path): whatever file is at the tmp name takes the record's
\* name; with no file there FileNotFoundError is caught and printed
SaveReplace(w) ==
    /\ spc[w] = "written"
    /\ IF path.tmp # 0
       THEN /\ path' = [ json |-> path.tmp, tmp |-> 0 ]
            /\ sres' = [sres EXCEPT ![w].result = "ok"]
       ELSE /\ UNCHANGED path
            /\ sres' = [sres EXCEPT ![w].result = "failed"]
    /\ spc' = [spc EXCEPT ![w] = "idle"]
    /\ sfd' = [sfd EXCEPT ![w] = 0]
    /\ saved' = [saved EXCEPT ![w] = @ + 1]
    /\ UNCHANGED << coreVars, callVars, inode, lastRead >>

\* OSError inside the try block (mkdir, open, write, close or replace): the
\* except clause prints it and save returns
SaveRaises(w) ==
    /\ spc[w] \in {"idle", "opened", "half", "written"}
    /\ saved[w] < MaxSaves
    /\ spc' = [spc EXCEPT ![w] = "idle"]
    /\ sfd' = [sfd EXCEPT ![w] = 0]
    /\ saved' = [saved EXCEPT ![w] = @ + 1]
    /\ sres' = [sres EXCEPT ![w] =
                 [ result |-> "failed",
                   before |-> IF spc[w] = "idle" THEN content(inode, path, "json")
                              ELSE sres[w].before ]]
    /\ UNCHANGED << coreVars, callVars, inode, path, lastRead >>

\* a reader (load_job, list_pending_jobs, load_all) opens {job_id}.json and
\* reads it
ReaderLoads ==
    /\ lastRead' = content(inode, path, "json")
    /\ lastRead' # lastRead
    /\ UNCHANGED << coreVars, callVars, inode, path, spc, sfd, saved, sres >>

\* two writers saving the same job beside a reader
NextSave ==
    \/ \E w \in Writers : SaveOpen(w)
    \/ \E w \in Writers : SaveWriteHead(w)
    \/ \E w \in Writers : SaveWriteTail(w)
    \/ \E w \in Writers : SaveReplace(w)
    \/ ReaderLoads

\* one writer whose disk writes can fail, beside a reader
NextSaveFault ==
    \/ SaveOpen("s1")
    \/ SaveWriteHead("s1")
    \/ SaveWriteTail("s1")
    \/ SaveReplace("s1")
    \/ SaveRaises("s1")
    \/ ReaderLoads

\* ---------------------------------------------------------------- job-id index
\* job ids and tenant and loan names passed to the index ("" is the empty string)
IndexJobIds == 1..MaxIndexJobs
IndexTenants == {"", "t1"}
IndexLoans == {"", "L1", "L2"}

\* no file at that name
NoIndexFile == [ exists |-> FALSE ]
\* load_index_entry returns None
NotFound == [ found |-> FALSE ]
\* load_index_entry returns (tid, lid)
Found(tid, lid) == [ found |-> TRUE, tenant_id |-> tid, loan_id |-> lid ]
\* no load_index_entry since the last save
NoLoad == [ job_id |-> 0 ]

\* every job id written to one file
index_path_shared(job_id) == 1

\* _meta/job_index/{job_id}.json
index_path(job_id) == job_id

\* the index files after save_index_entry; an OSError at mkdir, open, write or
\* replace is printed and leaves the file at `path` as it was
save_index_entry(files, job_id, tenant_id, loan_id, raises) ==
    IF raises THEN files
    ELSE [ files EXCEPT ![index_path(job_id)] =
                            [ tenant_id |-> tenant_id, loan_id |-> loan_id ] ]

\* (tid, lid) when the file is there and `tid and lid` is true, else None
load_index_entry(files, job_id) ==
    LET data == files[index_path(job_id)]
    IN  IF data = NoIndexFile THEN NotFound
        ELSE IF data.tenant_id # "" /\ data.loan_id # ""
             THEN Found(data.tenant_id, data.loan_id)
             ELSE NotFound

InitIndex ==
    /\ indexFiles = [ j \in IndexJobIds |-> NoIndexFile ]
    /\ indexSaved = [ j \in IndexJobIds |-> << >> ]
    /\ indexRead = NoLoad

SaveIndexEntry(job_id, tenant_id, loan_id, raises) ==
    /\ Len(indexSaved[job_id]) < MaxIndexSaves
    /\ indexFiles' = save_index_entry(indexFiles, job_id, tenant_id, loan_id, raises)
    /\ indexSaved' = [ indexSaved EXCEPT ![job_id] =
                         Append(@, [ tenant_id |-> tenant_id, loan_id |-> loan_id,
                                     raises |-> raises ]) ]
    /\ indexRead' = NoLoad
    /\ UNCHANGED << coreVars, saveVars, fnArgs, fnOut >>

LoadIndexEntry(job_id) ==
    /\ indexRead' = [ job_id |-> job_id, result |-> load_index_entry(indexFiles, job_id) ]
    /\ indexRead' # indexRead
    /\ UNCHANGED << coreVars, saveVars, fnArgs, fnOut, indexFiles, indexSaved >>

NextIndex ==
    \/ \E j \in IndexJobIds, t \in IndexTenants, l \in IndexLoans, raises \in BOOLEAN :
           SaveIndexEntry(j, t, l, raises)
    \/ \E j \in IndexJobIds : LoadIndexEntry(j)

\* ---------------------------------------------------------------- specifications
\* the records queued on disk at the start: jobs 1..n, PENDING, with distinct
\* fingerprints; they are pipeline jobs and the first one is for loan L1
InitQueues ==
    { q \in UNION { [1..n -> Loans \X Requests] : n \in 0..MaxInitJobs } :
        /\ \A i, j \in DOMAIN q : q[i] = q[j] => i = j
        /\ \A i \in DOMAIN q : ~q[i][2].question
        /\ 1 \in DOMAIN q => q[1] = <<"L1", [run_id |-> "R1", question |-> FALSE]>> }

\* at most one queued record, for loan L1
EnqueueQueues ==
    { q \in UNION { [1..n -> {"L1"} \X Requests] : n \in 0..1 } :
        \A i \in DOMAIN q : ~q[i][2].question }

\* the files before any process starts, with queue q on disk
InitFiles(q) ==
    /\ disk = [ j \in JobIds |->
                  IF j \in DOMAIN q THEN PendingJob(j, q[j][1], q[j][2]) ELSE NoJob ]
    /\ mtimeOrder = [ i \in DOMAIN q |-> i ]
    /\ nextId = Len(q) + 1
    /\ claim = [ j \in JobIds |-> "none" ]
    /\ lock = [ l \in Loans |-> 0 ]
    /\ manifest = [ l \in Loans |-> "none" ]
    /\ units = {}

\* the processes before any of them starts
InitProcesses ==
    /\ svcJobs = [ j \in JobIds |-> NoJob ]
    /\ keyIndex = [ k \in Keys |-> 0 ]
    /\ apc = "start"
    /\ orphaned = {}
    /\ watching = {}
    /\ restarts = 0
    /\ cpc = [ c \in Clients |-> "idle" ]
    /\ creq = [ c \in Clients |-> <<"L1", [run_id |-> None, question |-> FALSE], 0>> ]
    /\ cjob = [ c \in Clients |-> 0 ]
    /\ cstart = [ c \in Clients |-> 0 ]
    /\ enqLog = << >>
    /\ wpc = [ w \in Workers |-> "idle" ]
    /\ wpending = [ w \in Workers |-> {} ]
    /\ wjid = [ w \in Workers |-> 0 ]
    /\ wjob = [ w \in Workers |-> NoJob ]
    /\ wret = [ w \in Workers |-> NoRet ]
    /\ runs = [ j \in JobIds |-> 0 ]
    /\ wonBy = [ j \in JobIds |-> {} ]
    /\ shortCircuited = {}
    /\ InitSave
    /\ InitIndex

\* the files and the processes before any process starts, with queue q on disk
InitSystem(q) == InitFiles(q) /\ InitProcesses

\* the state before any process starts, with queue q on disk
InitWith(q) ==
    /\ InitSystem(q)
    /\ fnArgs = NoCall
    /\ fnOut = NoCall

Init == \E q \in InitQueues : InitWith(q)

\* the API process starting (and restarting) beside the worker processes
ApiNext ==
    \/ ApiFindOrphans
    \/ ApiLoadAll
    \/ ApiRestoreOrphans
    \/ ApiRestart

\* the poll cycles of worker processes ws
CycleNext(ws) ==
    \/ \E w \in ws : CycleStart(w)
    \/ \E w \in ws, j \in JobIds : CycleTryClaim(w, j)
    \/ \E w \in ws : CycleRecheck(w)
    \/ \E w \in ws : CycleAcquire(w)
    \/ \E w \in ws, o \in PipelineOutcomes : CycleRunnerReturns(w, o)
    \/ \E w \in ws, o \in PipelineOutcomes : CycleRunnerRaises(w, o)
    \/ \E w \in ws : CycleFinalize(w)

\* workers and the API process over a queue of submitted jobs
Next ==
    \/ ApiNext
    \/ CycleNext(Workers)
    \/ \E w \in Workers : CycleNothing(w)
    \/ \E j \in JobIds : AgeClaim(j)

Spec == Init /\ [][Next]_vars

\* clients of the API process submitting jobs, beside one worker
InitEnqueue == \E q \in EnqueueQueues : InitWith(q)

EnqueueNext ==
    \/ \E c \in Clients, l \in Loans, r \in Requests : EnqueueCheck(c, l, r)
    \/ \E c \in Clients : EnqueueShortCircuit(c)
    \/ \E c \in Clients : EnqueueRaise(c)
    \/ \E c \in Clients : EnqueueSave(c)

NextEnqueue ==
    \/ ApiNext
    \/ EnqueueNext
    \/ CycleNext({"w1"})

SpecEnqueue == InitEnqueue /\ [][NextEnqueue]_vars

\* worker processes alone, each polling for ever (main's while True loop):
\* every worker that can take a step of its cycle eventually takes one
NextProgress ==
    \/ CycleNext(Workers)
    \/ \E w \in Workers : CycleNothing(w)
    \/ \E j \in JobIds : AgeClaim(j)

WorkerFairness == \A w \in Workers : WF_vars(CycleNext({w}) \/ CycleNothing(w))

SpecProgress == Init /\ [][NextProgress]_vars /\ WorkerFairness

\* saves of one job, step by step, over an empty job directory
SpecSave == InitWith(<< >>) /\ [][NextSave]_vars

SpecSaveFault == InitWith(<< >>) /\ [][NextSaveFault]_vars

\* calls to the job-id index, one after another, over an empty index directory
SpecIndex == InitWith(<< >>) /\ [][NextIndex]_vars

\* ---------------------------------------------------------------- faults
\* loan_lock.acquire raises RuntimeError.  at "open" the directory or the
\* exclusive create failed (no marker); at "write" the create succeeded and
\* os.write / os.fsync failed, and acquire does not unlink the file it made.
\* run_one_cycle saves FAIL with the error, releases the claim, returns True.
CycleAcquireRaises(w, at) ==
    /\ wpc[w] = "acquire"
    /\ at \in {"open", "write"}
    /\ at = "write" => lock_free(lock, wjob[w].loan_id)
    /\ lock' = IF at = "write" THEN [lock EXCEPT ![wjob[w].loan_id] = wjid[w]] ELSE lock
    /\ LET job == [ wjob[w] EXCEPT !.status = "FAIL", !.finished_at_utc = "t",
                                   !.error = "lock" ]
       IN  /\ disk' = save(disk, job)
           /\ mtimeOrder' = touch(mtimeOrder, job.job_id)
    /\ claim' = release_claim(claim, wjid[w])
    /\ wonBy' = [wonBy EXCEPT ![wjid[w]] = {}]
    /\ wpc' = [wpc EXCEPT ![w] = "idle"]
    /\ wjid' = [wjid EXCEPT ![w] = 0]
    /\ wjob' = [wjob EXCEPT ![w] = NoJob]
    /\ UNCHANGED << manifest, units, apiVars, clientVars, wpending, wret, runs, pureVars >>

\* a pipeline that exits 0 leaving a manifest file that is JSON but no object
MalformedOutcomes ==
    { [kind |-> "ret", returncode |-> 0, stdout |-> "run_id = R1", write |-> "MALFORMED"] }

\* manifest.get("status") raises AttributeError after the runner returned:
\* nothing is saved, the claim is not released, the exception leaves
\* run_one_cycle and main, and the worker process ends
CycleFinalizeRaises(w) ==
    /\ wpc[w] = "finalize"
    /\ manifest_raises(wjob[w], wret[w].stdout, manifest)
    /\ wpc' = [wpc EXCEPT ![w] = "crashed"]
    /\ wjid' = [wjid EXCEPT ![w] = 0]
    /\ wjob' = [wjob EXCEPT ![w] = NoJob]
    /\ wret' = [wret EXCEPT ![w] = NoRet]
    /\ UNCHANGED << fsVars, apiVars, clientVars, wpending, ghostVars, pureVars >>

\* worker processes whose lock acquisition and manifest reads can fail
NextFaults ==
    \/ NextProgress
    \/ \E w \in Workers, at \in {"open", "write"} : CycleAcquireRaises(w, at)
    \/ \E w \in Workers, o \in MalformedOutcomes : CycleRunnerReturns(w, o)
    \/ \E w \in Workers : CycleFinalizeRaises(w)

SpecFaults == Init /\ [][NextFaults]_vars

\* ---------------------------------------------------------------- single calls
\* everything but the call being studied
systemVars == << coreVars, saveVars, indexVars >>

\* a single call with arguments drawn from calls, over an empty job directory
InitCall(calls) ==
    /\ InitSystem(<< >>)
    /\ fnArgs \in calls
    /\ fnOut = NoCall

\* the manifest files when only loan_id has one, of the given status
OnlyManifest(loan_id, status) ==
    [ l \in Loans |-> IF l = loan_id THEN status ELSE "none" ]

\* the record an executor holds when runner.run has returned
RunningJob(job_id, loan_id, req) ==
    [ PendingJob(job_id, loan_id, req) EXCEPT !.status = "RUNNING", !.started_at_utc = "t" ]

\* the record JobService._run_worker saves after a normal runner return: for a
\* query job the result status comes from the exit code, not from the manifest
ServiceClassify(job, returncode, stdout, mf) ==
    LET resolved_run_id ==
            IF job.request.run_id # None THEN job.request.run_id
            ELSE parse_run_id_from_stdout(stdout)
        found == IF resolved_run_id # None
                 THEN load_manifest_if_present(mf, job.loan_id, resolved_run_id)
                 ELSE None
        result_summary ==
            IF job.request.question
            THEN (IF returncode = 0 THEN "SUCCESS" ELSE "FAIL")
            ELSE found
        done == [ job EXCEPT !.finished_at_utc = "t", !.stdout = stdout,
                             !.stderr = "", !.run_id = resolved_run_id ]
    IN  IF returncode = 0 /\ result_summary = "SUCCESS"
        THEN [ done EXCEPT !.status = "SUCCESS", !.result = result_summary ]
        ELSE [ done EXCEPT !.status = "FAIL", !.error = "exit",
                           !.result = IF result_summary # None THEN result_summary
                                      ELSE job.result ]

\* a normal runner return reaching one of the two executors
ClassifyCalls ==
    { [ op |-> "classify", executor |-> e, loan_id |-> l, request |-> r,
        returncode |-> rc, stdout |-> out, manifest |-> m ] :
        e \in {"worker", "service"}, l \in Loans, r \in Requests, rc \in {0, 1},
        out \in {"", "run_id = R1"}, m \in {"none", "SUCCESS", "FAIL"} }

\* run_one_cycle classifies the return
WorkerClassifies ==
    /\ fnArgs.op = "classify" /\ fnArgs.executor = "worker"
    /\ fnOut = NoCall
    /\ fnOut' = Classify(RunningJob(1, fnArgs.loan_id, fnArgs.request), fnArgs.returncode,
                         fnArgs.stdout, OnlyManifest(fnArgs.loan_id, fnArgs.manifest))
    /\ UNCHANGED << systemVars, fnArgs >>

\* JobService._run_worker classifies the return
ServiceClassifies ==
    /\ fnArgs.op = "classify" /\ fnArgs.executor = "service"
    /\ fnOut = NoCall
    /\ fnOut' = ServiceClassify(RunningJob(1, fnArgs.loan_id, fnArgs.request),
                                fnArgs.returncode, fnArgs.stdout,
                                OnlyManifest(fnArgs.loan_id, fnArgs.manifest))
    /\ UNCHANGED << systemVars, fnArgs >>

InitClassify == InitCall(ClassifyCalls)

NextClassify == WorkerClassifies \/ ServiceClassifies

SpecClassify == InitClassify /\ [][NextClassify]_vars

\* ---- SubprocessRunner.run
\* the path run takes: the query path for a request with a question, the
\* supervised path when a job id is passed and systemd-run is installed,
\* the direct path otherwise
RunnerPath(req, supervised) ==
    IF req.question THEN "query"
    ELSE IF supervised THEN "supervised" ELSE "direct"

\* direct path: proc.wait(timeout); on expiry the process is killed and the
\* return code is -1
run_direct(timed_out, exit) ==
    [ kind |-> "ret", returncode |-> IF timed_out THEN -1 ELSE exit ]

\* supervised path: proc.wait(timeout) on systemd-run, -1 on expiry; then the
\* exit code in the rc file, when that file exists, replaces the return code
run_with_systemd(timed_out, exit, rc_file) ==
    LET waited == IF timed_out THEN -1 ELSE exit
    IN  [ kind |-> "ret",
          returncode |-> IF rc_file.exists THEN rc_file.value ELSE waited ]

\* query path: subprocess.run(..., timeout=rem) raises TimeoutExpired
run_query_job(timed_out, exit) ==
    IF timed_out THEN [ kind |-> "timeout", returncode |-> -1 ]
    ELSE [ kind |-> "ret", returncode |-> exit ]

runner_run(req, supervised, timed_out, exit, rc_file) ==
    IF RunnerPath(req, supervised) = "query" THEN run_query_job(timed_out, exit)
    ELSE IF RunnerPath(req, supervised) = "supervised"
         THEN run_with_systemd(timed_out, exit, rc_file)
         ELSE run_direct(timed_out, exit)

\* the rc file of a supervised job: absent, or holding the exit code the
\* pipeline's shell wrote when the pipeline ended
RcFiles ==
    { [exists |-> FALSE, value |-> 0] }
    \cup { [exists |-> TRUE, value |-> v] : v \in {0, 1} }

\* one pipeline run: the request, the path, whether the timeout expires, the
\* exit code the waited-for process gives otherwise, and what is on disk when
\* the runner returns (rc file, manifest of the run)
RunCalls ==
    { [ op |-> "run", request |-> r, supervised |-> sv, timed_out |-> to,
        exit |-> e, rc_file |-> rcf, manifest |-> m ] :
        r \in Requests, sv \in BOOLEAN, to \in BOOLEAN, e \in {0, 1},
        rcf \in RcFiles, m \in {"none", "SUCCESS", "FAIL"} }

\* runner.run ends (returns or raises)
RunnerRuns ==
    /\ fnArgs.op = "run"
    /\ fnOut = NoCall
    /\ fnOut' = [ stage |-> "ran",
                  outcome |-> runner_run(fnArgs.request, fnArgs.supervised,
                                         fnArgs.timed_out, fnArgs.exit, fnArgs.rc_file) ]
    /\ UNCHANGED << systemVars, fnArgs >>

\* run_one_cycle after runner.run: the except clauses save FAIL, a normal
\* return is classified and saved
WorkerSavesRun ==
    /\ fnArgs.op = "run"
    /\ fnOut # NoCall /\ fnOut.stage = "ran"
    /\ LET job == RunningJob(1, "L1", fnArgs.request)
       IN  fnOut' =
             [ stage |-> "saved",
               outcome |-> fnOut.outcome,
               job |-> IF fnOut.outcome.kind = "ret"
                       THEN Classify(job, fnOut.outcome.returncode, "run_id = R1",
                                     OnlyManifest("L1", fnArgs.manifest))
                       ELSE [ job EXCEPT !.status = "FAIL", !.finished_at_utc = "t",
                                         !.error = "timeout" ] ]
    /\ UNCHANGED << systemVars, fnArgs >>

InitRun == InitCall(RunCalls)

NextRun == RunnerRuns \/ WorkerSavesRun

SpecRun == InitRun /\ [][NextRun]_vars

\* ---- DiskJobStore.load_all over a directory with old files
Take(seq, n) == SubSeq(seq, 1, IF n < Len(seq) THEN n ELSE Len(seq))

Range(seq) == { seq[i] : i \in 1..Len(seq) }

\* collected.sort(newest first); to_load = collected[:JOB_RELOAD_LIMIT]
to_load(order) == Take(Reverse(order), JOB_RELOAD_LIMIT)

\* the files the retention loop visits, were it to visit only the loaded ones
retention_visits_loaded(order) == Range(to_load(order))

\* the files the retention loop visits: every collected file
retention_visits(order) == Range(order)

\* the dict load_all returns: the loaded files, RUNNING ones recovered
load_all_dict(d, order, mf) ==
    [ j \in JobIds |->
        IF j \notin Range(to_load(order)) THEN NoJob
        ELSE IF d[j].status = "RUNNING" THEN RecoverRecord(d[j], mf) ELSE d[j] ]

\* the job files after load_all: recovered records saved, then every visited
\* file whose modification time at enumeration (is_old) is beyond the
\* retention window unlinked
load_all_disk(d, order, mf, is_old) ==
    [ j \in JobIds |->
        IF j \in retention_visits(order) /\ j \in is_old THEN NoJob
        ELSE IF load_all_dict(d, order, mf)[j] # NoJob THEN load_all_dict(d, order, mf)[j]
        ELSE d[j] ]

\* a job file of loan L1 found with the given status
FileOf(job_id, status) ==
    IF status = "ABSENT" THEN NoJob
    ELSE [ PendingJob(job_id, "L1", [run_id |-> "R1", question |-> FALSE])
             EXCEPT !.status = status ]

\* job directories: which files exist and with which status, their order of
\* modification time (oldest first), how many of the oldest are beyond the
\* retention window, and the manifest of the run
LoadAllCalls ==
    UNION { { [ op |-> "load_all", files |-> [ j \in JobIds |-> FileOf(j, st[j]) ],
                order |-> o, n_old |-> n, manifest |-> m ] :
                o \in Perms({ j \in JobIds : st[j] # "ABSENT" }),
                n \in 0..Cardinality({ j \in JobIds : st[j] # "ABSENT" }),
                m \in {"none", "SUCCESS"} } :
            st \in [ JobIds -> {"ABSENT", "PENDING", "RUNNING", "SUCCESS"} ] }

\* the files of the call that are beyond the retention window at enumeration
OldFiles == Range(Take(fnArgs.order, fnArgs.n_old))

\* one call of load_all
LoadAllReturns ==
    /\ fnArgs.op = "load_all"
    /\ fnOut = NoCall
    /\ fnOut' = [ jobs |-> load_all_dict(fnArgs.files, fnArgs.order,
                                         OnlyManifest("L1", fnArgs.manifest)),
                  disk |-> load_all_disk(fnArgs.files, fnArgs.order,
                                         OnlyManifest("L1", fnArgs.manifest), OldFiles) ]
    /\ UNCHANGED << systemVars, fnArgs >>

InitLoadAll == InitCall(LoadAllCalls)

NextLoadAll == LoadAllReturns

SpecLoadAll == InitLoadAll /\ [][NextLoadAll]_vars

\* ---- _truncate
\* strings are sequences of characters
Chars == {"a", "b"}

Strings == UNION { [1..n -> Chars] : n \in 0..MaxStrLen }

\* the text "\n... (truncated)"
TruncationSentinel ==
    << "\n", ".", ".", ".", " ", "(", "t", "r", "u", "n", "c", "a", "t", "e", "d", ")" >>

\* if not s or len(s) <= max_len: return s or ""
\* return s[:max_len] + "\n... (truncated)"
truncate(s, max_len) ==
    IF s = << >> \/ Len(s) <= max_len THEN s
    ELSE Take(s, max_len) \o TruncationSentinel

\* captured output strings and caps
TruncateCalls ==
    { [ op |-> "truncate", s |-> s, max_len |-> c ] : s \in Strings, c \in 0..MaxCap }

\* one call of _truncate
TruncateReturns ==
    /\ fnArgs.op = "truncate"
    /\ fnOut = NoCall
    /\ fnOut' = [ value |-> truncate(fnArgs.s, fnArgs.max_len) ]
    /\ UNCHANGED << systemVars, fnArgs >>

InitTruncate == InitCall(TruncateCalls)

NextTruncate == TruncateReturns

SpecTruncate == InitTruncate /\ [][NextTruncate]_vars

\* ---- JobService.get_job / list_jobs
\* the fields of a job record that can hold null
NullableFields ==
    {"run_id", "started_at_utc", "finished_at_utc", "result", "error", "stdout", "stderr"}

\* a projection that drops null fields and keeps job_key
compact_keeps_key(job) ==
    [ k \in { f \in DOMAIN job : ~ (f \in NullableFields /\ job[f] = None) } |-> job[k] ]

\* {k: v for k, v in job.items() if v is not None and k != "job_key"}
compact(job) ==
    [ k \in { f \in DOMAIN job :
                f # "job_key" /\ ~ (f \in NullableFields /\ job[f] = None) } |-> job[k] ]

\* NoJob stands for the None returned for an unknown job id
get_job(jobs, job_id) ==
    IF jobs[job_id] = NoJob THEN NoJob ELSE compact(jobs[job_id])

\* the entries of the list (status None: no filter); the limit, 50 unless
\* given, is above the number of jobs
list_jobs(jobs, status) ==
    { compact(jobs[j]) :
        j \in { i \in JobIds : /\ jobs[i] # NoJob
                               /\ (status = None \/ jobs[i].status = status) } }

\* the dict enqueue_job returns for an answered call
enqueue_response(answer) ==
    [ job_id |-> answer.job_id, status |-> answer.status, status_url |-> answer.job_id ]

\* GET /jobs/{job_id} served by the running API process
ServiceGetJob(job_id) ==
    /\ apc = "up"
    /\ fnOut = NoCall
    /\ fnArgs' = [ op |-> "get_job", job_id |-> job_id ]
    /\ fnOut' = [ value |-> get_job(svcJobs, job_id) ]
    /\ UNCHANGED systemVars

\* GET /jobs served by the running API process
ServiceListJobs(status) ==
    /\ apc = "up"
    /\ fnOut = NoCall
    /\ fnArgs' = [ op |-> "list_jobs", status |-> status ]
    /\ fnOut' = [ jobs |-> list_jobs(svcJobs, status) ]
    /\ UNCHANGED systemVars

\* clients, the API process and a worker, with one query observed at the end
NextQuery ==
    \/ fnOut = NoCall /\ NextEnqueue
    \/ \E j \in JobIds : ServiceGetJob(j)
    \/ \E st \in {None, "PENDING", "RUNNING", "SUCCESS", "FAIL"} : ServiceListJobs(st)

SpecQuery == InitEnqueue /\ [][NextQuery]_vars

\* ---- startup beside supervised pipelines
\* the job files load_all loads
Loaded(d, order) ==
    [ j \in JobIds |-> IF j \in Range(to_load(order)) THEN d[j] ELSE NoJob ]

\* a record an API process killed earlier left behind
LeftRecord(job_id, loan_id, status) ==
    [ PendingJob(job_id, loan_id, [run_id |-> "R1", question |-> FALSE])
        EXCEPT !.status = status, !.started_at_utc = "t",
               !.finished_at_utc = IF status = "RUNNING" THEN None ELSE "t",
               !.error = IF status = "FAIL" THEN "exit" ELSE None,
               !.result = IF status = "SUCCESS" THEN "SUCCESS" ELSE None ]

\* job directories an API process killed during supervised runs leaves: n
\* records, at most one RUNNING per loan (its pipeline held the loan lock)
LeftDirs ==
    { c \in [ n : 1..MaxJobs, loan : [JobIds -> Loans],
              status : [JobIds -> {"RUNNING", "SUCCESS", "FAIL"}] ] :
        /\ \A j \in JobIds : j > c.n => c.loan[j] = "L1" /\ c.status[j] = "FAIL"
        /\ \A j, k \in 1..c.n :
              (c.status[j] = "RUNNING" /\ c.status[k] = "RUNNING" /\ c.loan[j] = c.loan[k])
                  => j = k }

\* the RUNNING job of a loan in such a directory, 0 if none
RunningOf(c, l) ==
    IF \E j \in 1..c.n : c.status[j] = "RUNNING" /\ c.loan[j] = l
    THEN CHOOSE j \in 1..c.n : c.status[j] = "RUNNING" /\ c.loan[j] = l
    ELSE 0

\* the API process starts again: the files are in any order of modification
\* time, the RUNNING jobs' loans are locked, and the supervision units of
\* some of the RUNNING jobs are still active
InitOrphans ==
    /\ \E c \in LeftDirs :
          /\ disk = [ j \in JobIds |->
                        IF j <= c.n THEN LeftRecord(j, c.loan[j], c.status[j]) ELSE NoJob ]
          /\ mtimeOrder \in Perms(1..c.n)
          /\ nextId = c.n + 1
          /\ lock = [ l \in Loans |-> RunningOf(c, l) ]
          /\ units \in SUBSET { j \in 1..c.n : c.status[j] = "RUNNING" }
    /\ claim = [ j \in JobIds |-> "none" ]
    /\ manifest \in [ Loans -> {"none", "SUCCESS"} ]
    /\ InitProcesses
    /\ fnArgs = NoCall
    /\ fnOut = NoCall

\* _startup step 2 over a directory that can hold more than JOB_RELOAD_LIMIT
\* files (all of them within the retention window)
ApiLoadAllBounded ==
    /\ apc = "load"
    /\ LET jobs == load_all_dict(disk, mtimeOrder, manifest)
       IN  /\ svcJobs' = [ j \in JobIds |-> IF jobs[j] # NoJob THEN jobs[j] ELSE svcJobs[j] ]
           /\ keyIndex' = rebuild(svcJobs', mtimeOrder)
    /\ disk' = load_all_disk(disk, mtimeOrder, manifest, {})
    /\ lock' = load_all_lock(lock, Loaded(disk, mtimeOrder))
    /\ mtimeOrder' = load_all_order(mtimeOrder, Loaded(disk, mtimeOrder))
    /\ apc' = "restore"
    /\ UNCHANGED << claim, manifest, units, orphaned, watching, restarts, clientVars,
                    workerVars, ghostVars, pureVars >>

\* the supervised pipeline of a job ends, having written a SUCCESS manifest
\* or not; its scope becomes inactive
UnitExits(job_id, write) ==
    /\ job_id \in units
    /\ write \in {"keep", "SUCCESS"}
    /\ units' = units \ {job_id}
    /\ manifest' = [manifest EXCEPT ![disk[job_id].loan_id] =
                        IF write = "keep" THEN @ ELSE write]
    /\ UNCHANGED << disk, mtimeOrder, claim, lock, apiVars, clientVars, workerVars,
                    ghostVars, pureVars >>

\* _watch_orphaned_job after the unit is no longer active: the temp files are
\* read and removed, then _service._finalize_job is called; JobService has no
\* such method, AttributeError ends the thread and nothing is saved
WatcherFinalizes(job_id) ==
    /\ apc = "up"
    /\ job_id \in watching
    /\ job_id \notin units
    /\ watching' = watching \ {job_id}
    /\ UNCHANGED << fsVars, svcJobs, keyIndex, apc, orphaned, restarts, clientVars,
                    workerVars, ghostVars, pureVars >>

\* the API process starting while supervised pipelines run on
NextOrphans ==
    \/ ApiFindOrphans
    \/ ApiLoadAllBounded
    \/ ApiRestoreOrphans
    \/ ApiRestart
    \/ \E j \in JobIds, wr \in {"keep", "SUCCESS"} : UnitExits(j, wr)
    \/ \E j \in JobIds : WatcherFinalizes(j)

SpecOrphans == InitOrphans /\ [][NextOrphans]_vars

\* one start of the API process: _startup runs to its end, every watcher
\* thread runs, and every supervised pipeline ends (the runner's timeout)
NextWatch ==
    \/ ApiFindOrphans
    \/ ApiLoadAllBounded
    \/ ApiRestoreOrphans
    \/ \E j \in JobIds, wr \in {"keep", "SUCCESS"} : UnitExits(j, wr)
    \/ \E j \in JobIds : WatcherFinalizes(j)

WatchFairness ==
    /\ WF_vars(ApiFindOrphans \/ ApiLoadAllBounded \/ ApiRestoreOrphans)
    /\ \A j \in JobIds : WF_vars(WatcherFinalizes(j))
    /\ \A j \in JobIds : WF_vars(\E wr \in {"keep", "SUCCESS"} : UnitExits(j, wr))

SpecWatch == InitOrphans /\ [][NextWatch]_vars /\ WatchFairness

\* ---------------------------------------------------------------- worker crashes
\* the worker process dies (is killed) after store.try_claim returned True and
\* before loan_lock.acquire created the lock file: its claim marker stays.
\* Some other worker stays alive
WorkerDiesClaiming(w) ==
    /\ wpc[w] \in {"recheck", "acquire"}
    /\ \E v \in Workers \ {w} : wpc[v] # "dead"
    /\ wpc' = [wpc EXCEPT ![w] = "dead"]
    /\ UNCHANGED << fsVars, apiVars, clientVars, wpending, wjid, wjob, wret,
                    ghostVars, pureVars >>

\* the worker process dies after loan_lock.acquire returned and before
\* store.save(job) wrote RUNNING: its claim marker and the lock file stay
WorkerDiesLocked(w) ==
    /\ wpc[w] = "acquire"
    /\ lock_free(lock, wjob[w].loan_id)
    /\ \E v \in Workers \ {w} : wpc[v] # "dead"
    /\ lock' = [lock EXCEPT ![wjob[w].loan_id] = wjid[w]]
    /\ wpc' = [wpc EXCEPT ![w] = "dead"]
    /\ UNCHANGED << disk, mtimeOrder, claim, manifest, units, apiVars, clientVars,
                    wpending, wjid, wjob, wret, ghostVars, pureVars >>

\* worker processes that can die between claiming a job and saving it RUNNING
NextCrash ==
    \/ NextProgress
    \/ \E w \in Workers : WorkerDiesClaiming(w)
    \/ \E w \in Workers : WorkerDiesLocked(w)

\* the workers still alive keep polling (main sleeps POLL_INTERVAL_SEC and
\* calls run_one_cycle again) and time passes, so every claim marker ages
CrashFairness ==
    /\ WorkerFairness
    /\ \A j \in JobIds : WF_vars(AgeClaim(j))

SpecCrash == Init /\ [][NextCrash]_vars /\ CrashFairness

\* ---------------------------------------------------------------- clear_stale_claims, one call
\* ages of claim markers in seconds; NoMarker where there is no .claim file
ClaimAges == 0..MaxClaimAge
NoMarker == -1

\* what the .claim file of an age is to clear_stale_claims(max_age_sec):
\* now - p.stat().st_mtime > max_age_sec
marker_state(age, max_age_sec) ==
    IF age = NoMarker THEN "none"
    ELSE IF age > max_age_sec THEN "stale" ELSE "fresh"

\* job directories of loan L1: the age of each claim marker, the record file
\* beside it, the loan lock, and the max_age_sec argument
ClearCalls ==
    [ op : {"clear_stale_claims"},
      ages : [ JobIds -> ClaimAges \cup {NoMarker} ],
      max_age_sec : 0..(MaxClaimAge - 1),
      status : [ JobIds -> {"ABSENT", "PENDING", "RUNNING", "FAIL"} ],
      lock : [ Loans -> {0, 1} ] ]

\* the record files of the call
FilesOf(call) == [ j \in JobIds |-> FileOf(j, call.status[j]) ]

\* the claim markers of the call as the store sees them
MarkersOf(call) == [ j \in JobIds |-> marker_state(call.ages[j], call.max_age_sec) ]

\* store.clear_stale_claims(max_age_sec): the only file operation on its path
\* besides reads is p.unlink() of a .claim file
ClearStaleClaimsReturns ==
    /\ fnArgs.op = "clear_stale_claims"
    /\ fnOut = NoCall
    /\ fnOut' = [ claim |-> clear_stale_claims(MarkersOf(fnArgs), FilesOf(fnArgs)),
                  files |-> FilesOf(fnArgs),
                  lock |-> fnArgs.lock ]
    /\ UNCHANGED << systemVars, fnArgs >>

InitClear == InitCall(ClearCalls)

NextClear == ClearStaleClaimsReturns

SpecClear == InitClear /\ [][NextClear]_vars

\* ---------------------------------------------------------------- load_all over malformed files
\* what a .json file of the jobs directory can hold: a job record, text that
\* is not JSON, JSON without "status" (or without "job_id", or no object),
\* bytes that are not valid UTF-8
FileKinds == {"record", "bad_json", "no_status", "not_utf8"}

\* how the loading loop of load_all ends for one file: json.load raises
\* JSONDecodeError (caught, skipped), the field test fails (skipped), or
\* reading the text raises UnicodeDecodeError, a ValueError that
\* `except (json.JSONDecodeError, OSError)` does not catch
parse_outcome(kind) ==
    CASE kind = "record" -> "load"
      [] kind \in {"bad_json", "no_status"} -> "skip"
      [] kind = "not_utf8" -> "raise"

\* load_all over files whose kinds are given, in order of modification time
\* (oldest first): an exception leaves the call, or the dict is returned
load_all_files(kind, order) ==
    IF \E j \in Range(to_load(order)) : parse_outcome(kind[j]) = "raise"
    THEN [ raised |-> TRUE ]
    ELSE [ raised |-> FALSE,
           jobs |-> [ j \in JobIds |->
                        IF j \in Range(to_load(order)) /\ parse_outcome(kind[j]) = "load"
                        THEN FileOf(j, "SUCCESS") ELSE NoJob ] ]

\* job directories: which files exist, what each holds, their order of
\* modification time
LoadFilesCalls ==
    UNION { { [ op |-> "load_all_files", present |-> S, kind |-> k, order |-> o ] :
                k \in [ JobIds -> FileKinds ], o \in Perms(S) } :
            S \in SUBSET JobIds }

LoadAllFilesReturns ==
    /\ fnArgs.op = "load_all_files"
    /\ fnOut = NoCall
    /\ fnOut' = load_all_files(fnArgs.kind, fnArgs.order)
    /\ UNCHANGED << systemVars, fnArgs >>

InitLoadFiles == InitCall(LoadFilesCalls)

NextLoadFiles == LoadAllFilesReturns

SpecLoadFiles == InitLoadFiles /\ [][NextLoadFiles]_vars

\* ---------------------------------------------------------------- properties
\* C1  Claim exclusivity: while a job's claim marker exists, exactly one
\* try_claim call has returned True since the marker was last absent (every
\* other call returned False), and with no marker no call has won.
ClaimExclusivity ==
    \A j \in JobIds :
        IF claim[j] = "none" THEN wonBy[j] = {} ELSE Cardinality(wonBy[j]) = 1

\* a PENDING job whose marker one worker created while the other worker, in the
\* same scan of its pending list, has tried the job and been refused
ClaimContended ==
    \E j \in JobIds, w1, w2 \in Workers :
        /\ w1 # w2
        /\ disk[j].status = "PENDING"
        /\ claim[j] # "none" /\ wonBy[j] = {w1} /\ wjid[w1] = j
        /\ wpc[w2] = "claim" /\ j \notin wpending[w2]

\* C2  Per-loan mutual exclusion: for each loan at most one worker is inside
\* runner.run at any time.
PipelineMutualExclusion ==
    \A l \in Loans :
        Cardinality({ w \in Workers : wpc[w] = "running" /\ wjob[w].loan_id = l }) <= 1

\* C3  No duplicated work: runner.run is invoked at most once for every job.
RunAtMostOnce == \A j \in JobIds : runs[j] <= 1

\* the status changes a write of a record may make
ForwardPairs ==
    { <<"ABSENT", "PENDING">>, <<"ABSENT", "SUCCESS">>, <<"PENDING", "RUNNING">>,
      <<"PENDING", "FAIL">>, <<"RUNNING", "SUCCESS">>, <<"RUNNING", "FAIL">> }

\* C4  Status only moves forward: every step leaves a persisted record's status
\* as it was or moves it along PENDING -> RUNNING -> {SUCCESS, FAIL} (or
\* PENDING -> FAIL).
StatusMovesForward ==
    [][ \A j \in JobIds :
            \/ disk'[j].status = disk[j].status
            \/ <<disk[j].status, disk'[j].status>> \in ForwardPairs ]_vars

Answers == Len(enqLog') = Len(enqLog) + 1

\* the answer the step gives
NewAnswer == enqLog'[Len(enqLog')]

\* the records carrying a fingerprint after the step, in memory or on disk
RecordsOf(key) ==
    { j \in JobIds : \/ svcJobs'[j] # NoJob /\ svcJobs'[j].job_key = key
                     \/ disk'[j] # NoJob /\ disk'[j].job_key = key }

\* C5  Idempotent submission: a call answered after an earlier call with the
\* same fingerprint had been answered by the same service, whose job has not
\* reached FAIL, returns the job_id the earlier call returned, and one record
\* carries the fingerprint.
IdempotentSubmission ==
    [][ Answers =>
            \A i \in 1..Len(enqLog) :
                ( /\ enqLog[i].key = NewAnswer.key
                  /\ enqLog[i].epoch = NewAnswer.epoch
                  /\ NewAnswer.start >= i
                  /\ enqLog[i].job_id # 0 =>
                        /\ svcJobs'[enqLog[i].job_id].status # "FAIL"
                        /\ disk'[enqLog[i].job_id].status # "FAIL" )
                => /\ enqLog[i].job_id # 0
                   /\ NewAnswer.job_id = enqLog[i].job_id
                   /\ Cardinality(RecordsOf(NewAnswer.key)) = 1 ]_vars

\* C6  Double submission under concurrency: two overlapping calls with the
\* same fingerprint, for which no job existed, that both returned a job_id
\* returned the same one, and one record carries the fingerprint.
ConcurrentDoubleSubmission ==
    [][ Answers =>
            \A i \in 1..Len(enqLog) :
                ( /\ enqLog[i].key = NewAnswer.key
                  /\ enqLog[i].epoch = NewAnswer.epoch
                  /\ NewAnswer.start < i
                  /\ ~enqLog[i].hit /\ enqLog[i].failed = 0
                  /\ NewAnswer.failed = 0
                  /\ enqLog[i].job_id # 0 /\ NewAnswer.job_id # 0 )
                => /\ NewAnswer.job_id = enqLog[i].job_id
                   /\ Cardinality(RecordsOf(NewAnswer.key)) = 1 ]_vars

\* C7  Retry after failure: a call that found a FAIL job indexed for its
\* fingerprint returns a new job_id, the index names the new job, and the
\* failed job is still FAIL.
RetryAfterFailure ==
    [][ (Answers /\ NewAnswer.failed # 0) =>
            /\ NewAnswer.job_id \notin {0, NewAnswer.failed}
            /\ keyIndex'[NewAnswer.key] = NewAnswer.job_id
            /\ svcJobs'[NewAnswer.failed] = svcJobs[NewAnswer.failed] ]_vars

\* C8  Enqueue of fresh work: a call that found no indexed active job and whose
\* run has no SUCCESS manifest is answered PENDING with a new job_id, whose
\* PENDING record is on disk and which the index names.
FreshEnqueue ==
    [][ (Answers /\ ~NewAnswer.hit /\ ~NewAnswer.mf) =>
            /\ NewAnswer.status = "PENDING"
            /\ NewAnswer.job_id # 0
            /\ disk'[NewAnswer.job_id].status = "PENDING"
            /\ keyIndex'[NewAnswer.key] = NewAnswer.job_id ]_vars

\* a job created by the short-circuit is SUCCESS wherever it is recorded, and
\* the pipeline has never been invoked for it
ShortCircuitJobsDone ==
    \A j \in shortCircuited :
        /\ runs[j] = 0
        /\ svcJobs[j].status \in {"ABSENT", "SUCCESS"}
        /\ disk[j].status \in {"ABSENT", "SUCCESS"}

\* the answer to a call that found no indexed active job is SUCCESS, for a
\* short-circuit job persisted SUCCESS with the manifest's result
AnsweredFromManifest ==
    /\ NewAnswer.status = "SUCCESS"
    /\ NewAnswer.job_id \in shortCircuited'
    /\ disk'[NewAnswer.job_id].status = "SUCCESS"
    /\ disk'[NewAnswer.job_id].result = "SUCCESS"
    /\ svcJobs'[NewAnswer.job_id] = disk'[NewAnswer.job_id]

RunningIntervalsDisjoint ==
    \A j, k \in JobIds :
        (/\ j # k
         /\ disk[j].status = "RUNNING" /\ disk[k].status = "RUNNING")
        => disk[j].loan_id # disk[k].loan_id

\* C12  Progress: under fair polling every PENDING record is eventually
\* persisted RUNNING and every RUNNING record is eventually persisted terminal;
\* a finalize step after exit code 0 with a SUCCESS manifest persists SUCCESS.
Progress ==
    /\ \A j \in JobIds : (disk[j].status = "PENDING") ~> (disk[j].status = "RUNNING")
    /\ \A j \in JobIds : (disk[j].status = "RUNNING") ~> (disk[j].status \in Terminal)
    /\ [][ \A w \in Workers :
              ( /\ wpc[w] = "finalize" /\ wpc'[w] = "idle"
                /\ wret[w].returncode = 0
                /\ manifest[wjob[w].loan_id] = "SUCCESS" )
              => disk'[wjid[w]].status = "SUCCESS" ]_vars

\* two jobs of one loan have both been run to a terminal state, one of them
\* SUCCESS, and the workers are idle again
BothJobsOfLoanDone ==
    /\ \A w \in Workers : wpc[w] = "idle"
    /\ \E j, k \in JobIds :
          /\ j # k
          /\ disk[j].status = "SUCCESS" /\ disk[k].status \in Terminal
          /\ disk[j].loan_id = disk[k].loan_id
          /\ runs[j] >= 1 /\ runs[k] >= 1

\* the run id an executor resolves for the call: the request's, else the one
\* printed on stdout
CallRunId ==
    IF fnArgs.request.run_id # None THEN fnArgs.request.run_id
    ELSE IF fnArgs.stdout = "run_id = R1" THEN "R1" ELSE None

\* C13  Outcome classification: after a normal runner return the record is
\* saved SUCCESS exactly when the exit code is 0 and the manifest of the
\* resolved run id reports SUCCESS, and FAIL in every other case.
OutcomeClassification ==
    (fnArgs.op = "classify" /\ fnOut # NoCall) =>
        /\ fnOut.status \in Terminal
        /\ (fnOut.status = "SUCCESS") <=>
              ( /\ fnArgs.returncode = 0
                /\ CallRunId # None
                /\ fnArgs.manifest = "SUCCESS" )

\* C14  Timeout is a definite FAIL: when the runner's timeout expires, on the
\* direct, the supervised or the query path, the record saved for the job is
\* FAIL, whatever rc file and manifest are on disk.
TimeoutIsFail ==
    (fnArgs.op = "run" /\ fnArgs.timed_out /\ fnOut # NoCall /\ fnOut.stage = "saved") =>
        fnOut.job.status = "FAIL"

\* C15  Lock error handling: when lock acquisition raises, the job is saved
\* FAIL with the lock error, it is not saved RUNNING, the pipeline is not run
\* for it, and the attempt leaves no lock marker behind.
LockErrorHandling ==
    [][ \A w \in Workers :
          (wpc[w] = "acquire" /\ wpc'[w] = "idle") =>
              /\ disk'[wjid[w]].status = "FAIL"
              /\ disk'[wjid[w]].error = "lock"
              /\ runs'[wjid[w]] = runs[wjid[w]]
              /\ lock'[wjob[w].loan_id] = lock[wjob[w].loan_id] ]_vars

\* C16  Failures end at the job boundary: a worker that saved a job RUNNING
\* saves a terminal status for it (FAIL with an error when anything went
\* wrong) before its cycle ends; no exception leaves the cycle with the
\* record RUNNING.
FailuresEndAtJobBoundary ==
    [][ \A w \in Workers :
          (wpc[w] \in {"running", "finalize"} /\ wpc'[w] \notin {"running", "finalize"}) =>
              /\ disk'[wjid[w]].status \in Terminal
              /\ disk'[wjid[w]].status = "FAIL" => disk'[wjid[w]].error # None ]_vars

\* C17  Retention: after load_all returns, no job file whose modification
\* time at enumeration was beyond the retention window remains, whatever its
\* status and whether or not it was within the reload limit; younger files
\* are not deleted.
Retention ==
    (fnArgs.op = "load_all" /\ fnOut # NoCall) =>
        \A j \in JobIds :
            /\ j \in OldFiles => fnOut.disk[j] = NoJob
            /\ (fnArgs.files[j] # NoJob /\ j \notin OldFiles) => fnOut.disk[j] # NoJob

\* an old RUNNING file within the reload limit and an old file beyond it are
\* both gone after the call, and a young file is still there
RetentionPruned ==
    /\ fnArgs.op = "load_all" /\ fnOut # NoCall
    /\ \E j, k, l \in JobIds :
          /\ j \in OldFiles /\ j \in Range(to_load(fnArgs.order))
          /\ fnArgs.files[j].status = "RUNNING" /\ fnOut.disk[j] = NoJob
          /\ k \in OldFiles /\ k \notin Range(to_load(fnArgs.order))
          /\ fnOut.disk[k] = NoJob
          /\ fnArgs.files[l] # NoJob /\ l \notin OldFiles /\ fnOut.disk[l] # NoJob

\* whether seq ends with the truncation sentinel
EndsWithSentinel(seq) ==
    /\ Len(seq) >= Len(TruncationSentinel)
    /\ SubSeq(seq, Len(seq) - Len(TruncationSentinel) + 1, Len(seq)) = TruncationSentinel

\* C18  Bounded output: the result of _truncate(s, c) has length at most c,
\* ends with the truncation sentinel whenever len(s) > c, and equals s when
\* len(s) <= c.
BoundedOutput ==
    (fnArgs.op = "truncate" /\ fnOut # NoCall) =>
        /\ Len(fnOut.value) <= fnArgs.max_len
        /\ Len(fnArgs.s) > fnArgs.max_len => EndsWithSentinel(fnOut.value)
        /\ Len(fnArgs.s) <= fnArgs.max_len => fnOut.value = fnArgs.s

\* an external view: no job_key field and no field holding null
IsCompact(view) ==
    /\ "job_key" \notin DOMAIN view
    /\ \A f \in DOMAIN view \cap NullableFields : view[f] # None

\* a persisted record: job_key and every nullable field are present
IsFullRecord(rec) ==
    /\ "job_key" \in DOMAIN rec
    /\ NullableFields \subseteq DOMAIN rec

\* C19  External projection: the result of get(job_id) and every entry of
\* list(...) has no job_key field and no field holding null, while the record
\* on disk for the same job keeps job_key and its null-valued fields; no
\* enqueue response has a job_key field.
ExternalProjection ==
    /\ (fnArgs.op = "get_job" /\ fnOut # NoCall) =>
          /\ IsCompact(fnOut.value)
          /\ disk[fnArgs.job_id] # NoJob => IsFullRecord(disk[fnArgs.job_id])
    /\ (fnArgs.op = "list_jobs" /\ fnOut # NoCall) =>
          \A view \in fnOut.jobs :
              /\ IsCompact(view)
              /\ disk[view.job_id] # NoJob => IsFullRecord(disk[view.job_id])
    /\ \A i \in 1..Len(enqLog) :
          enqLog[i].status # "RAISED" => "job_key" \notin DOMAIN enqueue_response(enqLog[i])

\* get returned a finished job without its null error field, which the
\* record on disk still holds beside job_key
ProjectedFinishedJob ==
    /\ fnArgs.op = "get_job" /\ fnOut # NoCall
    /\ fnOut.value # NoJob
    /\ fnOut.value.status = "SUCCESS"
    /\ "error" \notin DOMAIN fnOut.value
    /\ disk[fnArgs.job_id] # NoJob
    /\ disk[fnArgs.job_id].error = None
    /\ "job_key" \in DOMAIN disk[fnArgs.job_id]
    /\ Len(enqLog) >= 1

\* C20  Filesystem is authoritative for queries: once a worker has saved a
\* status for a job, a later get(job_id) of the job service returns that
\* status; the in-memory table is not behind the record on disk.
QueriesSeeDisk ==
    (fnArgs.op = "get_job" /\ fnOut # NoCall /\ disk[fnArgs.job_id] # NoJob) =>
        /\ fnOut.value # NoJob
        /\ fnOut.value.status = disk[fnArgs.job_id].status

\* the jobs carrying a fingerprint with an active status, in the service's
\* table or on disk
ActiveJobsOf(key) ==
    { j \in JobIds : \/ svcJobs[j] # NoJob /\ svcJobs[j].job_key = key
                        /\ svcJobs[j].status \in Active
                     \/ disk[j] # NoJob /\ disk[j].job_key = key
                        /\ disk[j].status \in Active }

\* C21  Fingerprint convergence: in every reachable state, for each job_key
\* at most one job carrying the key is PENDING, RUNNING or SUCCESS; a second
\* job for a key exists only when every earlier job with the key is FAIL.
FingerprintConvergence ==
    \A key \in Keys : Cardinality(ActiveJobsOf(key)) <= 1

\* a file content that is one whole record
IsComplete(c) == Len(c) = 2 /\ c[1] = c[2] /\ c[1] # NoChunk

\* C22  Atomic record writes: whatever the interleaving of save calls and
\* reads, a read of a job's file finds one complete version that some save
\* wrote, or no file; it never finds a partially written record.
AtomicRecordWrites ==
    lastRead # NotRead => (lastRead = Absent \/ IsComplete(lastRead))

\* C23  Persistence errors are contained: a save whose disk write fails
\* returns without raising and leaves the record file as it was when the call
\* began; the writer goes on, and its next successful save writes the whole
\* current record.
PersistenceErrorsContained ==
    \A w \in Writers :
        spc[w] = "idle" =>
            /\ sres[w].result = "failed" => content(inode, path, "json") = sres[w].before
            /\ sres[w].result = "ok" =>
                  content(inode, path, "json") = << Version(w, saved[w]), Version(w, saved[w]) >>

\* a save failed part way (its temporary file is left incomplete) after an
\* earlier save had persisted the record, which is still whole
FailedSaveKeptRecord ==
    /\ spc["s1"] = "idle" /\ sres["s1"].result = "failed"
    /\ saved["s1"] = 2
    /\ content(inode, path, "json") = << Version("s1", 1), Version("s1", 1) >>
    /\ path.tmp # 0 /\ ~ IsComplete(content(inode, path, "tmp"))

\* C24  Orphan restoration: once startup has completed, every job that was
\* RUNNING on disk with its supervision unit alive at startup is RUNNING, with
\* finished_at and error null, in the service's table and on disk; recovery
\* has not left it FAIL or SUCCESS.
OrphanRestoration ==
    apc = "up" =>
        \A j \in orphaned :
            /\ svcJobs[j] # NoJob
            /\ svcJobs[j].status = "RUNNING"
            /\ svcJobs[j].finished_at_utc = None /\ svcJobs[j].error = None
            /\ disk[j].status = "RUNNING"
            /\ disk[j].finished_at_utc = None /\ disk[j].error = None

\* C25  Orphan finalization: for every orphaned job restored to RUNNING, once
\* its supervision unit has exited the watcher eventually saves a terminal
\* status; no orphaned job stays RUNNING for ever.
OrphanFinalization ==
    \A j \in JobIds :
        (apc = "up" /\ j \in orphaned /\ j \notin units) ~> (disk[j].status \in Terminal)

\* the latest save_index_entry call for job_id
LastSave(job_id) == indexSaved[job_id][Len(indexSaved[job_id])]

WorkerStep(w) ==
    \/ wpc'[w] # wpc[w] \/ wpending'[w] # wpending[w] \/ wjid'[w] # wjid[w]
    \/ wjob'[w] # wjob[w] \/ wret'[w] # wret[w]

\* run_one_cycle of worker w returns True / returns False in this step
CycleReturnsTrue(w) == wpc[w] \in {"running", "finalize"} /\ wpc'[w] = "idle"
CycleReturnsFalse(w) == wpc[w] = "claim" /\ wpc'[w] = "idle"

\* C27 one job per cycle: a call to run_one_cycle starts the runner at most
\* once; it returns True only for a job it claimed and found PENDING, whose
\* record on disk is terminal when it returns; once it has claimed a PENDING
\* job it can only end by returning True; it returns False only when no pending
\* job is left to try and it holds no job, and until it has claimed a PENDING
\* job it writes no job record
OneJobPerCycle ==
    [][ \A w \in Workers :
          /\ CycleReturnsTrue(w) =>
                /\ wjid[w] # 0
                /\ runs[wjid[w]] >= 1
                /\ disk'[wjid[w]].status \in Terminal
          /\ CycleReturnsFalse(w) => (wpending[w] = {} /\ wjid[w] = 0 /\ disk' = disk)
          /\ (WorkerStep(w) /\ wpc[w] \in {"idle", "claim", "recheck"}) => disk' = disk
          /\ wpc[w] = "acquire" => wpc'[w] \in {"acquire", "running"}
          /\ wpc[w] = "running" => wpc'[w] \in {"running", "finalize", "idle"}
          /\ wpc[w] = "finalize" => wpc'[w] \in {"finalize", "idle"}
          /\ (WorkerStep(w) /\ wpc[w] \in {"acquire", "running", "finalize"}) =>
                \A j \in JobIds : disk'[j] # disk[j] => j = wjid[w]
      ]_vars

\* C27 witness: one call has run job 1 once and returned with its record
\* terminal, and another call, having found nothing it could claim, is about
\* to return False
OneCycleEach ==
    /\ wpc["w1"] = "idle" /\ wjid["w1"] = 0
    /\ disk[1] # NoJob /\ disk[1].status \in Terminal /\ runs[1] = 1
    /\ claim[1] = "none"
    /\ wpc["w2"] = "claim" /\ wpending["w2"] = {} /\ wjid["w2"] = 0

\* the workers between winning the claim on job j and the end of their
\* processing of it
ClaimHolders(j) == { w \in Workers : wjid[w] = j }

\* C28 single writer per job: at most one actor is between winning the claim
\* on a job and finishing its processing of it, and while an actor is there
\* every write of the job's record is a step of that actor
SingleWriterPerJob ==
    [][ \A j \in JobIds :
          /\ Cardinality(ClaimHolders(j)) <= 1
          /\ (ClaimHolders(j) # {} /\ disk'[j] # disk[j]) =>
                \E w \in ClaimHolders(j) : WorkerStep(w)
      ]_vars

\* C29 recovery from a dead claimant: when a worker has died after winning the
\* claim on a job whose record is still PENDING (whether or not it had acquired
\* the loan lock), and the remaining workers poll fairly while the claim ages,
\* the job's record eventually becomes terminal
DeadClaimantRecovery ==
    \A j \in JobIds : \A w \in Workers :
        (wpc[w] = "dead" /\ wjid[w] = j /\ disk[j].status = "PENDING")
            ~> (disk[j].status \in Terminal)

\* C30 clear_stale_claims frame: clear_stale_claims(max_age) removes a claim
\* marker only if the marker is older than max_age and its job record exists
\* with status PENDING; every other claim marker is still there, no marker
\* appears, and every job record and every lock marker is as it was
ClearStaleClaimsFrame ==
    (fnArgs.op = "clear_stale_claims" /\ fnOut # NoCall) =>
        /\ \A j \in JobIds :
              IF /\ fnArgs.ages[j] # NoMarker
                 /\ fnArgs.ages[j] > fnArgs.max_age_sec
                 /\ FilesOf(fnArgs)[j] # NoJob
                 /\ FilesOf(fnArgs)[j].status = "PENDING"
              THEN fnOut.claim[j] \in {"none", MarkersOf(fnArgs)[j]}
              ELSE fnOut.claim[j] = MarkersOf(fnArgs)[j]
        /\ fnOut.files = FilesOf(fnArgs)
        /\ fnOut.lock = fnArgs.lock

\* C30 witness: one call removed the old marker of a PENDING job and kept the
\* old marker of a RUNNING job and a marker exactly max_age old of a PENDING
\* job, while a lock marker was there
ClearedOneKeptOthers ==
    /\ fnArgs.op = "clear_stale_claims" /\ fnOut # NoCall
    /\ fnArgs.lock["L1"] = 1
    /\ \E j, k, l \in JobIds :
          /\ fnArgs.ages[j] > fnArgs.max_age_sec /\ FilesOf(fnArgs)[j].status = "PENDING"
          /\ fnOut.claim[j] = "none"
          /\ fnArgs.ages[k] > fnArgs.max_age_sec /\ FilesOf(fnArgs)[k].status = "RUNNING"
          /\ fnOut.claim[k] = "stale"
          /\ fnArgs.ages[l] = fnArgs.max_age_sec /\ FilesOf(fnArgs)[l].status = "PENDING"
          /\ fnOut.claim[l] = "fresh"

\* C31 claim release on every path: when run_one_cycle of a worker ends its
\* handling of a job whose claim it had won (SUCCESS, classified FAIL, runner
\* timeout or exception, lock error, failed PENDING re-check), the claim marker
\* of that job is gone
ClaimReleasedOnReturn ==
    [][ \A w \in Workers :
          (wjid[w] # 0 /\ wjid'[w] = 0 /\ wpc'[w] \in {"idle", "claim"})
              => claim'[wjid[w]] = "none" ]_vars

CompletionOrdering ==
    [][ \A w \in Workers :
          /\ (wpc[w] = "running" /\ wpc'[w] # "running")
                => disk'[wjid[w]].status \in Terminal
          /\ ( /\ wpc[w] \in {"running", "finalize"} /\ wpc'[w] = "idle"
               /\ claim[wjid[w]] # "none" /\ claim'[wjid[w]] = "none" )
                => lock'[wjob[w].loan_id] # wjid[w]
      ]_vars

\* C34 claim re-check: a worker that has won try_claim on a job whose
\* re-loaded record is missing or not PENDING releases the claim and goes on
\* with the next pending job; in that step the runner is not invoked, no job
\* record is written and no loan lock is created or removed
ClaimRecheck ==
    [][ \A w \in Workers :
          ( /\ wpc[w] = "recheck" /\ WorkerStep(w)
            /\ (disk[wjid[w]] = NoJob \/ disk[wjid[w]].status # "PENDING") )
              => /\ wpc'[w] = "claim" /\ wjid'[w] = 0
                 /\ claim'[wjid[w]] = "none"
                 /\ disk' = disk /\ lock' = lock /\ runs' = runs
      ]_vars

\* C34 witness: a worker holds the claim it has just won on a job that
\* another worker has meanwhile run to a terminal record
ClaimWonOnFinishedJob ==
    \E w \in Workers :
        /\ wpc[w] = "recheck"
        /\ claim[wjid[w]] = "fresh"
        /\ disk[wjid[w]].status \in Terminal
        /\ runs[wjid[w]] = 1

\* C35 lock acquisition protocol: loan_lock.acquire returns (the worker goes
\* on to run the job) only in a step in which the marker of the loan was absent
\* and is created naming the calling job; while a marker exists the call does
\* not return; an I/O failure ends the call at once with the job saved FAIL
\* and never run
LockAcquisitionProtocol ==
    [][ \A w \in Workers :
          wpc[w] = "acquire" =>
              /\ wpc'[w] = "running" =>
                    /\ lock[wjob[w].loan_id] = 0
                    /\ lock'[wjob[w].loan_id] = wjid[w]
              /\ lock[wjob[w].loan_id] # 0 => wpc'[w] \in {"acquire", "idle"}
              /\ wpc'[w] = "idle" =>
                    /\ disk'[wjid[w]].status = "FAIL"
                    /\ runs' = runs
      ]_vars

\* C35 witness: one job of a loan is running under the marker it created
\* while another job of the same loan waits in acquire
WaitingBehindLock ==
    \E w, v \in Workers :
        /\ wpc[w] = "running" /\ lock[wjob[w].loan_id] = wjid[w]
        /\ wpc[v] = "acquire" /\ wjob[v].loan_id = wjob[w].loan_id
        /\ wjid[v] # wjid[w]

\* the workers running the job that the lock marker of loan l names
LockHolders(l) == { w \in Workers : wpc[w] = "running" /\ wjid[w] = lock[l] }

\* C36 lock removal authority: a lock marker held by a live worker (the worker
\* is running the job the marker names) is removed or replaced only in a step
\* of that worker; no other job's release and no load_all removes it
LockRemovalAuthority ==
    [][ \A l \in Loans :
          (lock[l] # 0 /\ lock'[l] # lock[l] /\ LockHolders(l) # {})
              => \E w \in LockHolders(l) : WorkerStep(w) ]_vars

\* C37 crash recovery unblocks the loan: when load_all has run at a start of
\* the API process, every job that was persisted RUNNING with the lock marker
\* of its loan naming it, and whose executor is dead, has a terminal record,
\* and the lock marker of its loan is absent
CrashRecoveryUnblocks ==
    [][ (apc = "load" /\ apc' = "restore") =>
            \A j \in JobIds :
                ( /\ disk[j] # NoJob /\ disk[j].status = "RUNNING"
                  /\ lock[disk[j].loan_id] = j
                  /\ j \notin units )
                => /\ disk'[j].status \in Terminal
                   /\ lock'[disk[j].loan_id] = 0 ]_vars

\* the number of files of the call modified after file j
NewerThan(j) ==
    Cardinality({ i \in 1..Len(fnArgs.order) :
                    \E k \in 1..Len(fnArgs.order) : fnArgs.order[k] = j /\ i > k })

\* C38 bounded reload: load_all returns; it returns at most JOB_RELOAD_LIMIT
\* records, each from one of the JOB_RELOAD_LIMIT most recently modified
\* files; malformed files are skipped and every well-formed file among those
\* most recent ones is returned
BoundedReload ==
    (fnArgs.op = "load_all_files" /\ fnOut # NoCall) =>
        /\ ~fnOut.raised
        /\ Cardinality({ j \in JobIds : fnOut.jobs[j] # NoJob }) <= JOB_RELOAD_LIMIT
        /\ \A j \in JobIds :
              /\ fnOut.jobs[j] # NoJob =>
                    /\ j \in fnArgs.present /\ fnArgs.kind[j] = "record"
                    /\ NewerThan(j) < JOB_RELOAD_LIMIT
              /\ ( /\ j \in fnArgs.present /\ fnArgs.kind[j] = "record"
                   /\ NewerThan(j) < JOB_RELOAD_LIMIT ) => fnOut.jobs[j] # NoJob

\* the jobs on disk that carry job_key k
JobsWithKey(d, k) == { j \in JobIds : d[j] # NoJob /\ d[j].job_key = k }

\* the most recently created of a non-empty set of jobs (uuids are handed out
\* in order of creation)
Latest(S) == CHOOSE j \in S : \A i \in S : i <= j

\* C39 index survives restart: after load_all and rebuild at a start of the
\* API process, for every job_key carried by a loaded job the index names the
\* most recently created job with that key, the one it named before the restart
IndexSurvivesRestart ==
    [][ (apc = "load" /\ apc' = "restore") =>
            \A k \in Keys :
                JobsWithKey(svcJobs', k) # {} =>
                    keyIndex'[k] = Latest(JobsWithKey(svcJobs', k)) ]_vars

\* C40 record well-formedness: every record on disk that is PENDING has
\* started_at, finished_at, result and error null; that is RUNNING has
\* started_at set and finished_at, result and error null; that is SUCCESS or
\* FAIL has finished_at set; and error is non-null exactly when it is FAIL
WellFormedRecords ==
    \A j \in JobIds :
        disk[j] # NoJob =>
            /\ disk[j].status = "PENDING" =>
                  /\ disk[j].started_at_utc = None /\ disk[j].finished_at_utc = None
                  /\ disk[j].result = None /\ disk[j].error = None
            /\ disk[j].status = "RUNNING" =>
                  /\ disk[j].started_at_utc # None /\ disk[j].finished_at_utc = None
                  /\ disk[j].result = None /\ disk[j].error = None
            /\ disk[j].status \in Terminal => disk[j].finished_at_utc # None
            /\ (disk[j].error # None) <=> (disk[j].status = "FAIL")

====
